---- MODULE Spec2Model ----
(***************************************************************************)
(* The two form screens of the repository, CreateCampaignScreen.js and     *)
(* GoLiveScreen.js, as one state machine.                                  *)
(*                                                                         *)
(* A JavaScript string is a sequence of one-character strings, so that     *)
(* trim, split, length, parseFloat and parseInt are computed character by  *)
(* character as the engine computes them.  React state is the record of a  *)
(* screen's useState cells; a handler reads the cells of the latest render *)
(* (React commits the render of a state update before the next event is    *)
(* dispatched), and an async handler is an activation record in calls      *)
(* whose pc is the await it is suspended at.  A behaviour follows one      *)
(* mounted instance of one of the two screens; the screens share nothing.  *)
(* Left out: the styling, the camera preview toggles of GoLiveScreen       *)
(* (showPreview, cameraType), and leaving a screen with goBack, which ends *)
(* the instance.                                                           *)
(***************************************************************************)
EXTENDS Integers, Sequences, FiniteSets, TLC

VARIABLES mounted, campaign, live, perm, calls, alerts, route, accepted, fetches

vars == <<mounted, campaign, live, perm, calls, alerts, route, accepted, fetches>>

(***************************************************************************)
(* Bounds of the model.                                                    *)
(***************************************************************************)
\* Submissions that pass validation, per behaviour.
MaxSubmits == 2
\* Handler activations that may be pending at once (reached only if the
\* submit control fails to disable).
MaxCalls == 2
\* Length of a livestream title.
MaxTitleLen == 3
\* Length of the tags string of the tag normalisation specification.
MaxTagsLen == 7

(***************************************************************************)
(* Strings.                                                                *)
(***************************************************************************)
S0 == <<>>

\* All strings over chars of length at most n.
RECURSIVE StrsOfLen(_, _)
StrsOfLen(chars, n) ==
  IF n = 0 THEN {S0}
  ELSE {Append(s, c) : s \in StrsOfLen(chars, n - 1), c \in chars}

Strs(chars, n) == UNION {StrsOfLen(chars, k) : k \in 0..n}

\* The white space String.prototype.trim and the number parsers skip; of
\* the characters of the model only the space is white space.
IsWhiteSpace(c) == c = " "

RECURSIVE TrimStart(_)
TrimStart(s) ==
  IF s # S0 /\ IsWhiteSpace(Head(s)) THEN TrimStart(Tail(s)) ELSE s

RECURSIVE TrimEnd(_)
TrimEnd(s) ==
  IF s # S0 /\ IsWhiteSpace(s[Len(s)]) THEN TrimEnd(SubSeq(s, 1, Len(s) - 1))
  ELSE s

\* String.prototype.trim
Trim(s) == TrimEnd(TrimStart(s))

\* ToBoolean of a string: the empty string is falsy.
Truthy(s) == s # S0

\* String.prototype.split(','): the segments between the commas; a string
\* without a comma (the empty string too) is its own single segment.
RECURSIVE Split(_)
Split(s) ==
  IF \E i \in 1..Len(s) : s[i] = ","
  THEN LET i == CHOOSE j \in 1..Len(s) :
                  s[j] = "," /\ \A k \in 1..(j - 1) : s[k] # ","
       IN  <<SubSeq(s, 1, i - 1)>> \o Split(SubSeq(s, i + 1, Len(s)))
  ELSE <<s>>

\* Array.prototype.map(tag => tag.trim())
MapTrim(segs) == [i \in 1..Len(segs) |-> Trim(segs[i])]

\* Array.prototype.filter(tag => tag)
RECURSIVE FilterTruthy(_)
FilterTruthy(segs) ==
  IF segs = <<>> THEN <<>>
  ELSE IF Truthy(Head(segs)) THEN <<Head(segs)>> \o FilterTruthy(Tail(segs))
  ELSE FilterTruthy(Tail(segs))

(***************************************************************************)
(* Numbers.  A JavaScript number is NaN or the decimal num * 10^(-exp),    *)
(* kept without trailing zeros in the fraction.                            *)
(***************************************************************************)
NaN == [nan |-> TRUE, num |-> 0, exp |-> 0]

RECURSIVE Num(_, _)
Num(n, e) ==
  IF e > 0 /\ n % 10 = 0 THEN Num(n \div 10, e - 1)
  ELSE [nan |-> FALSE, num |-> n, exp |-> e]

Digits == {"0", "1", "2", "3", "4", "5", "6", "7", "8", "9"}

DigitVal(c) ==
  CASE c = "0" -> 0 [] c = "1" -> 1 [] c = "2" -> 2 [] c = "3" -> 3
    [] c = "4" -> 4 [] c = "5" -> 5 [] c = "6" -> 6 [] c = "7" -> 7
    [] c = "8" -> 8 [] c = "9" -> 9

\* The longest prefix of s made of digits.
RECURSIVE DigitPrefix(_)
DigitPrefix(s) ==
  IF s # S0 /\ Head(s) \in Digits THEN <<Head(s)>> \o DigitPrefix(Tail(s))
  ELSE S0

\* The value of a string of digits, the most significant first.
RECURSIVE DigitsVal(_)
DigitsVal(ds) ==
  IF ds = S0 THEN 0
  ELSE 10 * DigitsVal(SubSeq(ds, 1, Len(ds) - 1)) + DigitVal(ds[Len(ds)])

RECURSIVE Pow10(_)
Pow10(k) == IF k = 0 THEN 1 ELSE 10 * Pow10(k - 1)

IsSign(c) == c = "-" \/ c = "+"

\* parseFloat: leading white space is skipped, then the longest prefix that
\* is a decimal literal (sign, digits, point, digits) is the value; with no
\* such prefix the result is NaN.  (Exponents and "Infinity" need letters
\* that no input of the model holds.)
parseFloat(s) ==
  LET t    == TrimStart(s)
      neg  == t # S0 /\ Head(t) = "-"
      u    == IF t # S0 /\ IsSign(Head(t)) THEN Tail(t) ELSE t
      int  == DigitPrefix(u)
      v    == SubSeq(u, Len(int) + 1, Len(u))
      frac == IF v # S0 /\ Head(v) = "." THEN DigitPrefix(Tail(v)) ELSE S0
      mag  == DigitsVal(int) * Pow10(Len(frac)) + DigitsVal(frac)
  IN  IF int = S0 /\ frac = S0 THEN NaN
      ELSE Num(IF neg THEN 0 - mag ELSE mag, Len(frac))

\* parseInt without a radix: leading white space is skipped, then a sign,
\* then the longest run of decimal digits is the value; with no digit the
\* result is NaN.  (A 0x prefix needs a letter no input of the model holds.)
parseInt(s) ==
  LET t   == TrimStart(s)
      neg == t # S0 /\ Head(t) = "-"
      u   == IF t # S0 /\ IsSign(Head(t)) THEN Tail(t) ELSE t
      int == DigitPrefix(u)
  IN  IF int = S0 THEN NaN
      ELSE Num(IF neg THEN 0 - DigitsVal(int) ELSE DigitsVal(int), 0)

\* x <= 0 on numbers: every comparison with NaN is false.
LessOrEqualZero(x) == ~x.nan /\ x.num <= 0

(***************************************************************************)
(* What the user can enter.  Form texts are character sequences; texts the *)
(* code never looks into (alert texts, ids, server messages) are TLA+      *)
(* strings.                                                                *)
(***************************************************************************)
TextChars == {"a", " "}

\* Campaign title and description, livestream description: empty, blank,
\* a word between spaces.
TextInputs == { S0, <<" ">>, <<" ", "a", " ">> }

\* Livestream title.
TitleInputs == Strs(TextChars, MaxTitleLen)

\* Funding goal and duration: empty, zero, negative, non-numeric, blank,
\* a positive integer, a positive fraction below one.
NumberInputs ==
  { S0, <<"0">>, <<"-", "5">>, <<"a", "b", "c">>, <<" ">>, <<"5">>,
    <<"0", ".", "5">> }

\* Tags: none, one, the list "a, b ,, c", separators only.
TagInputs ==
  { S0, <<"a">>, <<"a", ",", " ", "b", " ", ",", ",", " ", "c">>,
    <<",", " ", ",">> }

categories ==
  { "Social Impact", "Education", "Environment", "Health", "Community",
    "Arts & Culture", "Technology", "Other" }

TITLE_MAX_LENGTH == 100
DESCRIPTION_MAX_LENGTH == 500

PermissionStatuses == {"granted", "denied", "undetermined"}

\* What the server may answer: the id and stream key of a created
\* resource, the detail of a rejection ("" when the body has none).
ServerIds == {"id1", "id2"}
StreamKeys == {"key1"}
ServerDetails == {"", "Goal too high"}

ResponseData(ok) ==
  IF ok
  THEN {[id |-> i, stream_key |-> k, detail |-> ""] :
          i \in ServerIds, k \in StreamKeys}
  ELSE {[id |-> "", stream_key |-> "", detail |-> d] : d \in ServerDetails}

(***************************************************************************)
(* Alert.alert(title, message, buttons): the dialog is queued and shown    *)
(* over the screen; a dialog given no buttons has the single button OK.    *)
(* data is the response the buttons' handlers closed over, if any.         *)
(***************************************************************************)
Alert(title, message, buttons, data) ==
  [title |-> title, message |-> message,
   buttons |-> IF buttons = <<>> THEN <<"OK">> ELSE buttons, data |-> data]

ButtonsOf(a) == {a.buttons[i] : i \in 1..Len(a.buttons)}

\* The positions of calls whose handler is running its last synchronous
\* stretch: between the notification and the finally block no other event
\* is dispatched.
Running == \E i \in 1..Len(calls) : calls[i].pc = "finally"

RemoveAt(seq, i) == SubSeq(seq, 1, i - 1) \o SubSeq(seq, i + 1, Len(seq))

(***************************************************************************)
(* Construction: useState initial values, and for GoLiveScreen the mount   *)
(* effect suspended at its first await.                                    *)
(***************************************************************************)
CampaignInit ==
  [title |-> S0, description |-> S0, fundingGoal |-> S0, duration |-> S0,
   tags |-> S0, isLoading |-> FALSE]

LiveInit ==
  [title |-> S0, description |-> S0, category |-> "", hasPermission |-> "null",
   isLoading |-> FALSE]

Init ==
  /\ mounted \in {"CreateCampaign", "GoLive"}
  /\ campaign = CampaignInit
  /\ live = LiveInit
  /\ perm = [pc |-> IF mounted = "GoLive" THEN "camera" ELSE "none",
             cameraStatus |-> ""]
  /\ calls = <<>>
  /\ alerts = <<>>
  /\ route = [name |-> mounted, params |-> <<>>]
  /\ accepted = 0
  /\ fetches = 0

(***************************************************************************)
(* CreateCampaignScreen                                                    *)
(***************************************************************************)
\* The form takes input: the screen is in front, no dialog covers it and no
\* handler is in the middle of a synchronous stretch.
CampaignFormActive ==
  /\ mounted = "CreateCampaign"
  /\ route.name = "CreateCampaign"
  /\ alerts = <<>>
  /\ ~Running

\* onChangeText of the five inputs.
CampaignSetTitle(s) ==
  /\ CampaignFormActive
  /\ Len(s) <= TITLE_MAX_LENGTH
  /\ campaign' = [campaign EXCEPT !.title = s]
  /\ UNCHANGED <<mounted, live, perm, calls, alerts, route, accepted, fetches>>

CampaignSetDescription(s) ==
  /\ CampaignFormActive
  /\ Len(s) <= DESCRIPTION_MAX_LENGTH
  /\ campaign' = [campaign EXCEPT !.description = s]
  /\ UNCHANGED <<mounted, live, perm, calls, alerts, route, accepted, fetches>>

setFundingGoal(s) ==
  /\ CampaignFormActive
  /\ campaign' = [campaign EXCEPT !.fundingGoal = s]
  /\ UNCHANGED <<mounted, live, perm, calls, alerts, route, accepted, fetches>>

setDuration(s) ==
  /\ CampaignFormActive
  /\ campaign' = [campaign EXCEPT !.duration = s]
  /\ UNCHANGED <<mounted, live, perm, calls, alerts, route, accepted, fetches>>

setTags(s) ==
  /\ CampaignFormActive
  /\ campaign' = [campaign EXCEPT !.tags = s]
  /\ UNCHANGED <<mounted, live, perm, calls, alerts, route, accepted, fetches>>

\* validateForm: the alerts it raises, none when the form is valid.
CampaignValidateForm(c) ==
  IF ~Truthy(Trim(c.title))
  THEN <<Alert("Error", "Please enter a campaign title", <<>>, <<>>)>>
  ELSE IF ~Truthy(Trim(c.description))
  THEN <<Alert("Error", "Please enter a campaign description", <<>>, <<>>)>>
  ELSE IF ~Truthy(c.fundingGoal) \/ LessOrEqualZero(parseFloat(c.fundingGoal))
  THEN <<Alert("Error", "Please enter a valid funding goal", <<>>, <<>>)>>
  ELSE IF ~Truthy(c.duration) \/ LessOrEqualZero(parseInt(c.duration))
  THEN <<Alert("Error", "Please enter a valid duration in days", <<>>, <<>>)>>
  ELSE <<>>

\* Mutant of NormalizeTags: the empty segments are kept.
NormalizeTagsKeepsEmpty(tags) == MapTrim(Split(tags))

\* tags.split(',').map(tag => tag.trim()).filter(tag => tag)
NormalizeTags(tags) == FilterTruthy(MapTrim(Split(tags)))

\* The object handed to JSON.stringify.
CampaignPayload(c) ==
  [title |-> Trim(c.title),
   description |-> Trim(c.description),
   goal |-> parseFloat(c.fundingGoal),
   duration_days |-> parseInt(c.duration),
   tags |-> NormalizeTags(c.tags),
   user_id |-> "current_user_id"]

\* Mutant of LaunchDisabled: the button never disables.
LaunchDisabledNever == FALSE

\* disabled={isLoading} of the launch button.
LaunchDisabled == campaign.isLoading

\* A handler activation suspended at await fetch(...), its request on the
\* wire.
FetchCall(payload) ==
  [pc |-> "fetch", request |-> <<payload>>, ok |-> FALSE]

\* handleLaunchCampaign up to its first await.
handleLaunchCampaign ==
  /\ CampaignFormActive
  /\ ~LaunchDisabled
  /\ accepted < MaxSubmits
  /\ Len(calls) < MaxCalls
  /\ IF CampaignValidateForm(campaign) # <<>>
     THEN /\ alerts' = alerts \o CampaignValidateForm(campaign)
          /\ UNCHANGED <<campaign, calls, accepted, fetches>>
     ELSE /\ campaign' = [campaign EXCEPT !.isLoading = TRUE]
          /\ calls' = Append(calls, FetchCall(CampaignPayload(campaign)))
          /\ accepted' = accepted + 1
          /\ fetches' = fetches + 1
          /\ UNCHANGED alerts
  /\ UNCHANGED <<mounted, live, perm, route>>

\* await fetch(...) resolves with a response, ok or not; the handler is
\* suspended again at await response.json().
FetchResolves(i, ok) ==
  /\ ~Running
  /\ calls[i].pc = "fetch"
  /\ calls' = [calls EXCEPT ![i] = [pc |-> "json", request |-> <<>>, ok |-> ok]]
  /\ UNCHANGED <<mounted, campaign, live, perm, alerts, route, accepted, fetches>>

\* Mutant of CampaignCatch: the catch block sends the request again.
CampaignCatchRetries(i) ==
  /\ calls' = [calls EXCEPT ![i].pc = "fetch"]
  /\ fetches' = fetches + 1
  /\ UNCHANGED <<mounted, campaign, live, perm, alerts, route, accepted>>

\* The catch block of handleLaunchCampaign.
CampaignCatch(i) ==
  /\ alerts' = Append(alerts,
        Alert("Error", "Network error. Please check your connection.",
              <<>>, <<>>))
  /\ calls' = [calls EXCEPT ![i].pc = "finally"]
  /\ UNCHANGED <<mounted, campaign, live, perm, route, accepted, fetches>>

\* The if (response.ok) ... else ... of handleLaunchCampaign.
CampaignThen(i, data) ==
  /\ alerts' = Append(alerts,
        IF calls[i].ok
        THEN Alert("Success!", "Your campaign has been launched!",
                   <<"View Campaign", "Create Another">>, <<data>>)
        ELSE Alert("Error",
                   IF data.detail # "" THEN data.detail
                   ELSE "Failed to create campaign", <<>>, <<>>))
  /\ calls' = [calls EXCEPT ![i].pc = "finally"]
  /\ UNCHANGED <<mounted, campaign, live, perm, route, accepted, fetches>>

\* Mutant of CampaignFinally: the activation ends without setIsLoading(false).
CampaignFinallyKeepsBusy(i) ==
  /\ mounted = "CreateCampaign"
  /\ calls[i].pc = "finally"
  /\ calls' = RemoveAt(calls, i)
  /\ UNCHANGED <<mounted, campaign, live, perm, alerts, route, accepted, fetches>>

\* The finally block of handleLaunchCampaign: setIsLoading(false), and the
\* activation ends.
CampaignFinally(i) ==
  /\ mounted = "CreateCampaign"
  /\ calls[i].pc = "finally"
  /\ campaign' = [campaign EXCEPT !.isLoading = FALSE]
  /\ calls' = RemoveAt(calls, i)
  /\ UNCHANGED <<mounted, live, perm, alerts, route, accepted, fetches>>

\* Mutant of ResetForm: setTags('') is missing.
ResetFormKeepsTags ==
  [campaign EXCEPT !.title = S0, !.description = S0, !.fundingGoal = S0,
                   !.duration = S0]

\* Reset form, the five setters of Create Another.
ResetForm ==
  [campaign EXCEPT !.title = S0, !.description = S0, !.fundingGoal = S0,
                   !.duration = S0, !.tags = S0]

\* The user chooses Create Another in the success dialog.
CreateAnother ==
  /\ mounted = "CreateCampaign"
  /\ ~Running
  /\ alerts # <<>>
  /\ "Create Another" \in ButtonsOf(Head(alerts))
  /\ alerts' = Tail(alerts)
  /\ campaign' = ResetForm
  /\ UNCHANGED <<mounted, live, perm, calls, route, accepted, fetches>>

\* navigation.navigate('CampaignDetail', { id: data.id })
CampaignDetailRoute(data) ==
  [name |-> "CampaignDetail", params |-> [id |-> data.id]]

\* The user chooses View Campaign in the success dialog.
ViewCampaign ==
  /\ mounted = "CreateCampaign"
  /\ ~Running
  /\ alerts # <<>>
  /\ "View Campaign" \in ButtonsOf(Head(alerts))
  /\ alerts' = Tail(alerts)
  /\ route' = CampaignDetailRoute(Head(alerts).data[1])
  /\ UNCHANGED <<mounted, campaign, live, perm, calls, accepted, fetches>>

(***************************************************************************)
(* GoLiveScreen                                                            *)
(***************************************************************************)
\* The mount effect: await Camera.requestCameraPermissionsAsync() resolves.
CameraResolves(status) ==
  /\ perm.pc = "camera"
  /\ perm' = [pc |-> "microphone", cameraStatus |-> status]
  /\ UNCHANGED <<mounted, campaign, live, calls, alerts, route, accepted, fetches>>

\* Mutant of MicrophoneResolves: the camera's status is not looked at.
MicrophoneResolvesIgnoresCamera(audioStatus) ==
  /\ perm.pc = "microphone"
  /\ perm' = [perm EXCEPT !.pc = "done"]
  /\ IF audioStatus = "granted"
     THEN /\ live' = [live EXCEPT !.hasPermission = "true"]
          /\ UNCHANGED alerts
     ELSE /\ live' = [live EXCEPT !.hasPermission = "false"]
          /\ alerts' = Append(alerts,
                Alert("Permissions Required",
                      "Camera and microphone access are required to go live.",
                      <<"Cancel", "Open Settings">>, <<>>))
  /\ UNCHANGED <<mounted, campaign, calls, route, accepted, fetches>>

\* await Camera.requestMicrophonePermissionsAsync() resolves, and the
\* effect runs to its end.
MicrophoneResolves(audioStatus) ==
  /\ perm.pc = "microphone"
  /\ perm' = [perm EXCEPT !.pc = "done"]
  /\ IF perm.cameraStatus = "granted" /\ audioStatus = "granted"
     THEN /\ live' = [live EXCEPT !.hasPermission = "true"]
          /\ UNCHANGED alerts
     ELSE /\ live' = [live EXCEPT !.hasPermission = "false"]
          /\ alerts' = Append(alerts,
                Alert("Permissions Required",
                      "Camera and microphone access are required to go live.",
                      <<"Cancel", "Open Settings">>, <<>>))
  /\ UNCHANGED <<mounted, campaign, calls, route, accepted, fetches>>

\* Either request rejects: nothing catches it and the effect ends there.
PermissionRejects ==
  /\ perm.pc \in {"camera", "microphone"}
  /\ perm' = [perm EXCEPT !.pc = "failed"]
  /\ UNCHANGED <<mounted, campaign, live, calls, alerts, route, accepted, fetches>>

\* The permission requests made and not yet returned: the effect awaits
\* the camera request before it makes the microphone request.
PendingPermissionRequests ==
  IF perm.pc = "camera" THEN {"camera"}
  ELSE IF perm.pc = "microphone" THEN {"microphone"}
  ELSE {}

\* !hasPermission
Falsy(flag) == flag \in {"null", "false"}

\* Mutant of LiveView: the form is rendered whatever hasPermission is.
LiveViewAlwaysForm == "form"

\* What the component returns: the spinner while hasPermission is null,
\* the Camera Access Required view when it is false, the form otherwise.
LiveView ==
  IF live.hasPermission = "null" THEN "checking"
  ELSE IF live.hasPermission = "false" THEN "denied"
  ELSE "form"

LiveFormActive ==
  /\ mounted = "GoLive"
  /\ route.name = "GoLive"
  /\ LiveView = "form"
  /\ alerts = <<>>
  /\ ~Running

\* onChangeText of the two inputs, onPress of a category chip.
LiveSetTitle(s) ==
  /\ LiveFormActive
  /\ Len(s) <= 100
  /\ live' = [live EXCEPT !.title = s]
  /\ UNCHANGED <<mounted, campaign, perm, calls, alerts, route, accepted, fetches>>

LiveSetDescription(s) ==
  /\ LiveFormActive
  /\ Len(s) <= 500
  /\ live' = [live EXCEPT !.description = s]
  /\ UNCHANGED <<mounted, campaign, perm, calls, alerts, route, accepted, fetches>>

setCategory(cat) ==
  /\ LiveFormActive
  /\ live' = [live EXCEPT !.category = cat]
  /\ UNCHANGED <<mounted, campaign, perm, calls, alerts, route, accepted, fetches>>

\* validateForm: the alerts it raises, none when the form is valid.
LiveValidateForm(l) ==
  IF ~Truthy(Trim(l.title))
  THEN <<Alert("Missing Information", "Please enter a stream title", <<>>, <<>>)>>
  ELSE IF Len(l.title) < 3
  THEN <<Alert("Title Too Short",
               "Stream title must be at least 3 characters", <<>>, <<>>)>>
  ELSE IF l.category = ""
  THEN <<Alert("Missing Category", "Please select a category", <<>>, <<>>)>>
  ELSE <<>>

\* The object handed to JSON.stringify.
LivePayload(l) ==
  [title |-> Trim(l.title),
   description |-> Trim(l.description),
   category |-> l.category,
   status |-> "live",
   viewer_count |-> 0]

\* disabled={isLoading} of the Go Live button.
GoLiveDisabled == live.isLoading

\* handleGoLive up to its first await.
handleGoLive ==
  /\ LiveFormActive
  /\ ~GoLiveDisabled
  /\ accepted < MaxSubmits
  /\ Len(calls) < MaxCalls
  /\ IF LiveValidateForm(live) # <<>>
     THEN /\ alerts' = alerts \o LiveValidateForm(live)
          /\ UNCHANGED <<live, calls, accepted, fetches>>
     ELSE IF Falsy(live.hasPermission)
     THEN /\ alerts' = Append(alerts,
                Alert("No Permission",
                      "Please grant camera and microphone permissions",
                      <<>>, <<>>))
          /\ UNCHANGED <<live, calls, accepted, fetches>>
     ELSE /\ live' = [live EXCEPT !.isLoading = TRUE]
          /\ calls' = Append(calls, FetchCall(LivePayload(live)))
          /\ accepted' = accepted + 1
          /\ fetches' = fetches + 1
          /\ UNCHANGED alerts
  /\ UNCHANGED <<mounted, campaign, perm, route>>

\* The catch block of handleGoLive.
LiveCatch(i) ==
  /\ alerts' = Append(alerts,
        Alert("Error", "Failed to start live stream. Please try again.",
              <<"OK">>, <<>>))
  /\ calls' = [calls EXCEPT ![i].pc = "finally"]
  /\ UNCHANGED <<mounted, campaign, live, perm, route, accepted, fetches>>

\* The if (response.ok) ... else throw ... of handleGoLive.
LiveThen(i, data) ==
  IF calls[i].ok
  THEN /\ alerts' = Append(alerts,
             Alert("You're Live!",
                   "Your stream is now broadcasting to the world!",
                   <<"Start Streaming">>, <<data>>))
       /\ calls' = [calls EXCEPT ![i].pc = "finally"]
       /\ UNCHANGED <<mounted, campaign, live, perm, route, accepted, fetches>>
  ELSE LiveCatch(i)

\* The finally block of handleGoLive.
LiveFinally(i) ==
  /\ mounted = "GoLive"
  /\ calls[i].pc = "finally"
  /\ live' = [live EXCEPT !.isLoading = FALSE]
  /\ calls' = RemoveAt(calls, i)
  /\ UNCHANGED <<mounted, campaign, perm, alerts, route, accepted, fetches>>

\* navigation.navigate('LiveStreaming', { streamId, streamKey })
LiveStreamingRoute(data) ==
  [name |-> "LiveStreaming",
   params |-> [streamId |-> data.id, streamKey |-> data.stream_key]]

\* The user chooses Start Streaming in the success dialog.
StartStreaming ==
  /\ mounted = "GoLive"
  /\ ~Running
  /\ alerts # <<>>
  /\ "Start Streaming" \in ButtonsOf(Head(alerts))
  /\ alerts' = Tail(alerts)
  /\ route' = LiveStreamingRoute(Head(alerts).data[1])
  /\ UNCHANGED <<mounted, campaign, live, perm, calls, accepted, fetches>>

(***************************************************************************)
(* Both screens: the network and the dialogs.                              *)
(***************************************************************************)
\* await fetch(...) rejects: the transport failed.
FetchRejects(i) ==
  /\ ~Running
  /\ calls[i].pc = "fetch"
  /\ IF mounted = "CreateCampaign" THEN CampaignCatch(i) ELSE LiveCatch(i)

\* await response.json() resolves with the body.
JsonResolves(i, data) ==
  /\ ~Running
  /\ calls[i].pc = "json"
  /\ data \in ResponseData(calls[i].ok)
  /\ IF mounted = "CreateCampaign" THEN CampaignThen(i, data)
     ELSE LiveThen(i, data)

\* await response.json() rejects: the body is not JSON.
JsonRejects(i) ==
  /\ ~Running
  /\ calls[i].pc = "json"
  /\ IF mounted = "CreateCampaign" THEN CampaignCatch(i) ELSE LiveCatch(i)

\* The user closes a dialog with a button that has no handler of the
\* screens' own (OK, Cancel, Open Settings).
Dismiss(button) ==
  /\ ~Running
  /\ alerts # <<>>
  /\ button \in ButtonsOf(Head(alerts))
  /\ button \in {"OK", "Cancel", "Open Settings"}
  /\ alerts' = Tail(alerts)
  /\ UNCHANGED <<mounted, campaign, live, perm, calls, route, accepted, fetches>>

Next ==
  \/ \E s \in TextInputs : CampaignSetTitle(s)
  \/ \E s \in TextInputs : CampaignSetDescription(s)
  \/ \E s \in NumberInputs : setFundingGoal(s)
  \/ \E s \in NumberInputs : setDuration(s)
  \/ \E s \in TagInputs : setTags(s)
  \/ handleLaunchCampaign
  \/ \E i \in 1..Len(calls) : CampaignFinally(i)
  \/ CreateAnother
  \/ ViewCampaign
  \/ \E st \in PermissionStatuses : CameraResolves(st)
  \/ \E st \in PermissionStatuses : MicrophoneResolves(st)
  \/ PermissionRejects
  \/ \E s \in TitleInputs : LiveSetTitle(s)
  \/ \E s \in TextInputs : LiveSetDescription(s)
  \/ \E cat \in categories : setCategory(cat)
  \/ handleGoLive
  \/ \E i \in 1..Len(calls) : LiveFinally(i)
  \/ StartStreaming
  \/ \E i \in 1..Len(calls), ok \in BOOLEAN : FetchResolves(i, ok)
  \/ \E i \in 1..Len(calls) : FetchRejects(i)
  \/ \E i \in 1..Len(calls) : \E ok \in BOOLEAN :
        \E data \in ResponseData(ok) : JsonResolves(i, data)
  \/ \E i \in 1..Len(calls) : JsonRejects(i)
  \/ \E b \in {"OK", "Cancel", "Open Settings"} : Dismiss(b)

Spec == Init /\ [][Next]_vars

(***************************************************************************)
(* Tag normalisation on its own: the form holds a valid campaign whose     *)
(* tags string is any string over TagChars up to MaxTagsLen characters (or *)
(* one of TagInputs), and the user presses the launch button.              *)
(***************************************************************************)
TagChars == {"a", "b", ",", " "}

TagsInit ==
  /\ mounted = "CreateCampaign"
  /\ campaign \in
       {[title |-> <<"a">>, description |-> <<"a">>, fundingGoal |-> <<"5">>,
         duration |-> <<"5">>, tags |-> t, isLoading |-> FALSE] :
          t \in Strs(TagChars, MaxTagsLen) \cup TagInputs}
  /\ live = LiveInit
  /\ perm = [pc |-> "none", cameraStatus |-> ""]
  /\ calls = <<>>
  /\ alerts = <<>>
  /\ route = [name |-> "CreateCampaign", params |-> <<>>]
  /\ accepted = 0
  /\ fetches = 0

TagsSpec == TagsInit /\ [][handleLaunchCampaign]_vars

(***************************************************************************)
(* Vocabulary of the properties.                                           *)
(***************************************************************************)
\* The busy flag of the mounted screen.
Busy == IF mounted = "CreateCampaign" THEN campaign.isLoading ELSE live.isLoading

\* The activations whose request has not resolved yet.
InFlight == {i \in 1..Len(calls) : calls[i].pc \in {"fetch", "json"}}

CampaignFields(c) == <<c.title, c.description, c.fundingGoal, c.duration, c.tags>>

LiveFields(l) == <<l.title, l.description, l.category>>

GreaterThanZero(x) == ~x.nan /\ x.num > 0

Blank(s) == Trim(s) = S0

\* The texts of the notifications of a request's outcome.
OutcomeMessages ==
  { "Your campaign has been launched!", "Failed to create campaign",
    "Network error. Please check your connection.",
    "Your stream is now broadcasting to the world!",
    "Failed to start live stream. Please try again." }
  \cup (ServerDetails \ {""})

OutcomeShown == \E k \in 1..Len(alerts) : alerts[k].message \in OutcomeMessages

(***************************************************************************)
(* C1: on either screen at most one creation request is in flight at any   *)
(* time, and while one is in flight the busy flag is set, so a press of    *)
(* the submit button cannot start a second one.                            *)
(***************************************************************************)
C1_OneRequestInFlight ==
  /\ Cardinality(InFlight) <= 1
  /\ Len(calls) <= 1
  /\ InFlight # {} => Busy

\* A second submission is in flight on the campaign form, whose title the
\* user has emptied since pressing the button.
C1_Witness ==
  /\ mounted = "CreateCampaign"
  /\ accepted = 2
  /\ InFlight = {1}
  /\ campaign.isLoading
  /\ campaign.title = S0

(***************************************************************************)
(* C2, as claimed: no outcome notification (success, error, network        *)
(* error) is shown while the busy flag is still true.                      *)
(***************************************************************************)
C2_NoNotificationWhileBusy == OutcomeShown => ~Busy

(***************************************************************************)
(* C2, amended: the handler raises the outcome notification while the busy *)
(* flag is still true and clears the flag in its finally block, in the     *)
(* same synchronous stretch; once that stretch is over, no outcome         *)
(* notification is on display while the busy flag is true.                 *)
(***************************************************************************)
C2_BusyClearedRightAfterNotification ==
  /\ \A i \in 1..Len(calls) :
        calls[i].pc = "finally" =>
          /\ Busy
          /\ alerts # <<>>
          /\ alerts[Len(alerts)].message \in OutcomeMessages
  /\ (OutcomeShown /\ ~Running) => ~Busy

\* The network error dialog is up on the Go Live form, the handler has
\* finished and the form is idle again.
C2_Witness ==
  /\ mounted = "GoLive"
  /\ alerts # <<>>
  /\ Head(alerts).message = "Failed to start live stream. Please try again."
  /\ calls = <<>>
  /\ ~live.isLoading

(***************************************************************************)
(* C3: on the campaign form with non-blank title and description, a press  *)
(* of the launch button with a funding goal that does not parse to a       *)
(* number greater than 0 is refused with the funding-goal error, the busy  *)
(* flag stays false and no request is issued.                              *)
(***************************************************************************)
C3_BadGoalRefused ==
  [][ ( /\ handleLaunchCampaign
        /\ ~Blank(campaign.title)
        /\ ~Blank(campaign.description)
        /\ ~GreaterThanZero(parseFloat(campaign.fundingGoal)) )
      => ( /\ alerts' = Append(alerts,
                Alert("Error", "Please enter a valid funding goal", <<>>, <<>>))
           /\ ~campaign'.isLoading
           /\ calls' = calls
           /\ fetches' = fetches ) ]_vars

(***************************************************************************)
(* C4: on the campaign form with non-blank title and description and a     *)
(* valid funding goal, a press of the launch button with a duration that   *)
(* does not parse to an integer greater than 0 is refused with the         *)
(* duration error, the busy flag stays false and no request is issued.     *)
(***************************************************************************)
C4_BadDurationRefused ==
  [][ ( /\ handleLaunchCampaign
        /\ ~Blank(campaign.title)
        /\ ~Blank(campaign.description)
        /\ GreaterThanZero(parseFloat(campaign.fundingGoal))
        /\ ~GreaterThanZero(parseInt(campaign.duration)) )
      => ( /\ alerts' = Append(alerts,
                Alert("Error", "Please enter a valid duration in days",
                      <<>>, <<>>))
           /\ ~campaign'.isLoading
           /\ calls' = calls
           /\ fetches' = fetches ) ]_vars

(***************************************************************************)
(* C5: on the Go Live form a press of the button with a title whose        *)
(* trimmed length is less than 3 is refused and sends no request, whatever *)
(* the category and the permission; a title whose trimmed length is 3 or   *)
(* more passes the two title checks.                                       *)
(***************************************************************************)
C5_ShortTitleRefused ==
  [][ /\ ( handleGoLive /\ Len(Trim(live.title)) < 3 )
         => ( /\ Len(alerts') = Len(alerts) + 1
              /\ ~live'.isLoading
              /\ calls' = calls
              /\ fetches' = fetches )
      /\ ( handleGoLive /\ Len(Trim(live.title)) >= 3 )
         => \A k \in 1..Len(alerts') :
               alerts'[k].title \notin {"Missing Information", "Title Too Short"}
    ]_vars

(***************************************************************************)
(* C7: on both forms a press of the submit button while any required      *)
(* field is empty or only white space (campaign: title, description,       *)
(* fundingGoal, duration; livestream: title, category) issues no request   *)
(* and does not set the busy flag.                                         *)
(***************************************************************************)
C7_BlankFieldNeverSubmits ==
  [][ ( \/ /\ handleLaunchCampaign
           /\ \/ Blank(campaign.title)
              \/ Blank(campaign.description)
              \/ Blank(campaign.fundingGoal)
              \/ Blank(campaign.duration)
        \/ /\ handleGoLive
           /\ Blank(live.title) \/ live.category = "" )
      => ( /\ ~Busy'
           /\ calls' = calls
           /\ fetches' = fetches ) ]_vars

C8_FailureKeepsDraftAndNeverRetries ==
  [][ /\ ( \E i \in 1..Len(calls) :
              \/ FetchRejects(i)
              \/ JsonRejects(i)
              \/ \E data \in ResponseData(FALSE) :
                    ~calls[i].ok /\ JsonResolves(i, data)
              \/ CampaignFinally(i)
              \/ LiveFinally(i) )
         => ( /\ CampaignFields(campaign') = CampaignFields(campaign)
              /\ LiveFields(live') = LiveFields(live)
              /\ fetches' = fetches
              /\ Len(calls') <= Len(calls)
              /\ \A k \in 1..Len(calls') : calls'[k].pc # "fetch" )
      /\ ( \E i \in 1..Len(calls) : CampaignFinally(i) \/ LiveFinally(i) )
         => ~Busy'
      /\ fetches' <= accepted'
    ]_vars

\* A campaign submission failed in transport: the error dialog is up, the
\* handler has finished, the form is idle and still holds what was entered.
C8_Witness ==
  /\ mounted = "CreateCampaign"
  /\ alerts # <<>>
  /\ Head(alerts).message = "Network error. Please check your connection."
  /\ calls = <<>>
  /\ ~campaign.isLoading
  /\ accepted = 1
  /\ fetches = 1
  /\ ~Blank(campaign.title)
  /\ campaign.tags # S0

(***************************************************************************)
(* C9: Create Another empties the five campaign fields and stays on the    *)
(* form; View Campaign navigates to CampaignDetail with the id of the      *)
(* response and changes none of the five fields; any other step that      *)
(* changes a field is the user's typing alone: it raises no dialog, starts *)
(* or completes no request and leaves the busy flag and the route alone,   *)
(* so no validation failure, rejection or transport failure resets a field.*)
(***************************************************************************)
C9_ResetOnlyByCreateAnother ==
  [][ /\ CreateAnother
         => ( /\ CampaignFields(campaign') = <<S0, S0, S0, S0, S0>>
              /\ route' = route
              /\ route.name = "CreateCampaign"
              /\ Head(alerts).message = "Your campaign has been launched!" )
      /\ ViewCampaign
         => ( /\ route'.name = "CampaignDetail"
              /\ route'.params.id = Head(alerts).data[1].id
              /\ route'.params.id \in ServerIds
              /\ CampaignFields(campaign') = CampaignFields(campaign) )
      /\ CampaignFields(campaign') # CampaignFields(campaign)
         => \/ CreateAnother
            \/ ( /\ alerts' = alerts
                 /\ calls' = calls
                 /\ campaign'.isLoading = campaign.isLoading
                 /\ route' = route
                 /\ accepted' = accepted
                 /\ fetches' = fetches )
    ]_vars

\* After a successful submission of a filled-in form the user chose Create
\* Another: the dialog is gone, the form is in front and empty.
C9_Witness ==
  /\ mounted = "CreateCampaign"
  /\ accepted = 1
  /\ calls = <<>>
  /\ alerts = <<>>
  /\ route.name = "CreateCampaign"
  /\ CampaignFields(campaign) = <<S0, S0, S0, S0, S0>>

(***************************************************************************)
(* C10: the tags of the request payload are the segments of the tags       *)
(* string between its commas, each without its surrounding white space,    *)
(* the empty ones dropped, in their order in the string.                   *)
(***************************************************************************)
\* The cut positions of s: before its first character, its commas, after
\* its last character.
TagCuts(s) == {0, Len(s) + 1} \cup {i \in 1..Len(s) : s[i] = ","}

\* The segments <<lo, hi>> of s between two neighbouring cuts that hold a
\* character other than white space.
TagSegments(s) ==
  {g \in TagCuts(s) \X TagCuts(s) :
      /\ g[1] < g[2]
      /\ \A c \in TagCuts(s) : ~(g[1] < c /\ c < g[2])
      /\ \E k \in (g[1] + 1)..(g[2] - 1) : ~IsWhiteSpace(s[k])}

\* The text of segment g from its first to its last character that is not
\* white space.
TagText(s, g) ==
  LET ink == {k \in (g[1] + 1)..(g[2] - 1) : ~IsWhiteSpace(s[k])}
      lo  == CHOOSE k \in ink : \A m \in ink : k <= m
      hi  == CHOOSE k \in ink : \A m \in ink : m <= k
  IN  SubSeq(s, lo, hi)

\* The j-th segment from the left.
TagSegment(s, j) ==
  CHOOSE g \in TagSegments(s) :
    Cardinality({h \in TagSegments(s) : h[1] < g[1]}) = j - 1

ExpectedTags(s) ==
  [j \in 1..Cardinality(TagSegments(s)) |-> TagText(s, TagSegment(s, j))]

C10_PayloadTags ==
  \A i \in 1..Len(calls) :
     calls[i].request # <<>> =>
        calls[i].request[1].tags = ExpectedTags(campaign.tags)

\* The request for the tags string "a, b ,," is on the wire with the tags
\* a and b.
C10_Witness ==
  /\ campaign.tags = <<"a", ",", " ", "b", " ", ",", ",">>
  /\ Len(calls) = 1
  /\ calls[1].request # <<>>
  /\ calls[1].request[1].tags = << <<"a">>, <<"b">> >>

(***************************************************************************)
(* C11, as claimed: the acquisition step requests camera and microphone    *)
(* access concurrently; that is, while the effect has not finished and the *)
(* camera request is outstanding, the microphone request is outstanding    *)
(* too.                                                                    *)
(***************************************************************************)
C11_RequestsConcurrent ==
  ( mounted = "GoLive" /\ "camera" \in PendingPermissionRequests )
  => "microphone" \in PendingPermissionRequests

(***************************************************************************)
(* C11, amended: on the Go Live screen the permission flag starts unknown  *)
(* and is set at most once, by the acquisition step, which requests camera *)
(* access and, only once that request has returned, microphone access (one *)
(* request is outstanding at a time).  The flag is set when the microphone *)
(* request returns: granted if and only if both requests returned granted, *)
(* otherwise denied with the settings prompt shown; once set it never      *)
(* changes again.  While a request is outstanding, or if one was rejected, *)
(* the flag is unknown.                                                    *)
(***************************************************************************)
C11_PermissionSetOnceSequentially ==
  /\ [] ( /\ Cardinality(PendingPermissionRequests) <= 1
          /\ (mounted = "GoLive" /\ perm.pc # "done")
                => live.hasPermission = "null"
          /\ (mounted = "GoLive" /\ perm.pc = "done")
                => live.hasPermission \in {"true", "false"} )
  /\ [][ /\ (\E st \in PermissionStatuses : CameraResolves(st))
            => ( /\ live'.hasPermission = "null"
                 /\ PendingPermissionRequests' = {"microphone"}
                 /\ alerts' = alerts )
         /\ \A st \in PermissionStatuses :
               MicrophoneResolves(st)
               => IF perm.cameraStatus = "granted" /\ st = "granted"
                  THEN /\ live'.hasPermission = "true"
                       /\ alerts' = alerts
                  ELSE /\ live'.hasPermission = "false"
                       /\ alerts' # <<>>
                       /\ alerts'[Len(alerts')].title = "Permissions Required"
                       /\ "Open Settings" \in ButtonsOf(alerts'[Len(alerts')])
         /\ live'.hasPermission # live.hasPermission
            => ( /\ live.hasPermission = "null"
                 /\ perm.pc = "microphone"
                 /\ perm'.pc = "done" )
       ]_vars

\* The camera request returned granted and the microphone request did not:
\* the flag is denied and the settings prompt is up.
C11_Witness ==
  /\ mounted = "GoLive"
  /\ perm.pc = "done"
  /\ perm.cameraStatus = "granted"
  /\ live.hasPermission = "false"
  /\ alerts # <<>>
  /\ Head(alerts).title = "Permissions Required"

====
